---- MODULE Spec2Model ----
(***************************************************************************)
(* Model of poet's Builder (src/poet/build/builder.py): the file-tree      *)
(* crawl of Builder._packages, the version classifiers of                  *)
(* Builder._classifiers_versions and the build sequence of Builder.build.  *)
(*                                                                         *)
(* Strings are sequences of tokens.  A token is a path separator "/", a    *)
(* dot ".", a file suffix (".py", ".txt") or a name without separator or   *)
(* dot, so that str.replace, str.endswith and str.startswith act on the    *)
(* tokens as the code's calls act on the characters.  A file name is the   *)
(* token sequence of one path component (<<"a", ".py">>), a path of the    *)
(* file system is a sequence of file names.                                *)
(***************************************************************************)
EXTENDS Integers, Sequences, FiniteSets, TLC

VARIABLES
    \* ---- Builder._packages called on its own (SpecPackages)
    tree,        \* the files of the project: a set of paths
    include,     \* poet.include: a sequence of glob patterns
    exclude,     \* poet.exclude + poet.ignore: a sequence of glob patterns
    crawl,       \* the returned dict and the manifest, or the not-yet-called mark
    \* ---- Builder._classifiers_versions called on its own (SpecClassifiers)
    python_versions, \* poet.python_versions: a sequence of constraints
    classifiers,     \* the returned list, or the not-yet-called mark
    \* ---- Builder.build (Spec)
    pc,          \* the position of the build call
    files,       \* the transient file names of the project root -> content or Absent
    manifest,    \* self._manifest
    readme,      \* the local variable readme of build
    pending,     \* the exception in flight in the try statement, or "none"
    raised,      \* the exception the caller observes, or "none"
    project,     \* the project being built (tree, patterns, readme format, options)
    hist         \* history of the current call: what it created, what ran

vars == <<tree, include, exclude, crawl, python_versions, classifiers,
          pc, files, manifest, readme, pending, raised, project, hist>>

-----------------------------------------------------------------------------
(* Bounds of the model *)

\* the longest include list drawn for a crawl
MaxIncludes == 2
\* the longest exclude + ignore list drawn for a crawl
MaxExcludes == 1
\* the longest list of python version constraints
MaxConstraints == 2
\* the number of build calls made on one Builder instance
MaxBuilds == 2

\* a result before the call that gives it
NotCalled == [called |-> FALSE, value |-> <<>>]
Called(v) == [called |-> TRUE, value |-> v]

\* a file: whether it exists, and its lines (each a string)
Absent == [exists |-> FALSE, content |-> <<>>]
File(lines) == [exists |-> TRUE, content |-> lines]

-----------------------------------------------------------------------------
(* Sequences and strings *)

Range(s) == {s[i] : i \in DOMAIN s}

Last(s) == s[Len(s)]

RECURSIVE SetToSeq(_)
\* The order in which glob lists a directory is the file system's; the model
\* fixes one and the claims compare the results as sets or count occurrences.
SetToSeq(S) ==
    IF S = {} THEN <<>>
    ELSE LET x == CHOOSE y \in S : TRUE IN <<x>> \o SetToSeq(S \ {x})

RECURSIVE Concat(_)
Concat(ss) == IF ss = <<>> THEN <<>> ELSE Head(ss) \o Concat(Tail(ss))

\* str.endswith(suffix) for a one-token suffix
EndsWith(s, tok) == Len(s) > 0 /\ Last(s) = tok

\* str.startswith('/')
StartsWithSlash(s) == Len(s) > 0 /\ Head(s) = "/"

\* str.replace('.py', ''): every occurrence is removed
ReplacePy(s) == SelectSeq(s, LAMBDA t : t # ".py")

\* str.replace('/', '.')
ReplaceSlash(s) == [i \in DOMAIN s |-> IF s[i] = "/" THEN "." ELSE s[i]]

\* the index of the last "/" of s, 0 when there is none
LastSlash(s) ==
    LET I == {i \in DOMAIN s : s[i] = "/"}
    IN IF I = {} THEN 0 ELSE CHOOSE i \in I : \A j \in I : j <= i

\* os.path.basename
Basename(s) == SubSeq(s, LastSlash(s) + 1, Len(s))

\* os.path.dirname
Dirname(s) ==
    LET k == LastSlash(s)
    IN IF k = 0 THEN <<>> ELSE IF k = 1 THEN <<"/">> ELSE SubSeq(s, 1, k - 1)

\* os.path.join(a, b) for a relative b
JoinPath(a, b) ==
    IF a = <<>> THEN b ELSE IF Last(a) = "/" THEN a \o b ELSE a \o <<"/">> \o b

InitPy == <<"__init__", ".py">>

-----------------------------------------------------------------------------
(* The file system.  The process runs with the file system's root as its  *)
(* working directory, so that "src/pkg" and "/src/pkg" name the same      *)
(* directory, as the spec's scenarios have it.                             *)

RECURSIVE Components(_)
\* the file names of a string, split at "/"
Components(s) ==
    IF s = <<>> THEN <<>>
    ELSE LET I == {i \in DOMAIN s : s[i] = "/"}
         IN IF I = {} THEN <<s>>
            ELSE LET k == CHOOSE i \in I : \A j \in I : i <= j
                 IN (IF k = 1 THEN <<>> ELSE <<SubSeq(s, 1, k - 1)>>)
                    \o Components(SubSeq(s, k + 1, Len(s)))

RECURSIVE PathStr(_)
\* the string of a path: its file names joined by "/"
PathStr(p) ==
    IF p = <<>> THEN <<>>
    ELSE IF Len(p) = 1 THEN p[1]
    ELSE p[1] \o <<"/">> \o PathStr(Tail(p))

IsPrefix(p, q) == Len(p) <= Len(q) /\ SubSeq(q, 1, Len(p)) = p

\* the directories of a tree: the proper prefixes of its files
DirsOf(t) == UNION {{SubSeq(f, 1, n) : n \in 0..(Len(f) - 1)} : f \in t}

\* os.path.isdir
IsDir(t, s) == Components(s) \in DirsOf(t)

\* os.path.exists
PathExists(t, s) == Components(s) \in (t \cup DirsOf(t))

\* os.listdir: the names in directory p (none when p is no directory)
ListDir(t, p) ==
    {f[Len(p) + 1] : f \in {g \in t : IsPrefix(p, g) /\ Len(g) > Len(p)}}

\* fnmatch of a file name against '*' (ext = <<>>) or '*<ext>'
FnMatch(name, ext) == ext = <<>> \/ (Len(name) > 1 /\ Last(name) = Last(ext))

-----------------------------------------------------------------------------
(* glob.glob(pattern, recursive=True).  A pattern is [abs, segs]: whether  *)
(* it starts with "/", and its segments: a literal file name, '*' with an  *)
(* optional suffix, or the recursive '**'.                                 *)

Lit(name) == [k |-> "lit", name |-> name, ext |-> <<>>]
Star(ext) == [k |-> "star", name |-> <<>>, ext |-> ext]
Rec == [k |-> "rec", name |-> <<>>, ext |-> <<>>]

SegStr(seg) ==
    IF seg.k = "lit" THEN seg.name
    ELSE IF seg.k = "star" THEN <<"*">> \o seg.ext
    ELSE <<"**">>

RECURSIVE Expand(_, _, _)
\* the paths below directory p that the segments match
Expand(t, p, segs) ==
    IF segs = <<>> THEN {p}
    ELSE LET seg == Head(segs)
             rest == Tail(segs)
             here == IF rest = <<>> THEN t \cup DirsOf(t) ELSE DirsOf(t)
         IN IF seg.k = "lit"
            THEN IF Append(p, seg.name) \in here
                 THEN Expand(t, Append(p, seg.name), rest) ELSE {}
            ELSE IF seg.k = "star"
            THEN UNION {Expand(t, Append(p, n), rest) :
                          n \in {m \in ListDir(t, p) :
                                   FnMatch(m, seg.ext) /\ Append(p, m) \in here}}
            ELSE \* '**': this directory and every directory below it
                 UNION {Expand(t, d, rest) : d \in {e \in DirsOf(t) : IsPrefix(p, e)}}

\* the matches as strings: each keeps the pattern's leading "/"
Glob(t, pat) ==
    SetToSeq({(IF pat.abs THEN <<"/">> ELSE <<>>) \o PathStr(p) :
                p \in Expand(t, <<>>, pat.segs)})

\* glob.glob(os.path.join(dir, '*.py')) for a directory given as a string
GlobPyIn(t, dir) ==
    SetToSeq({JoinPath(dir, n) :
                n \in {m \in ListDir(t, Components(dir)) : FnMatch(m, <<".py">>)}})

\* re.match('^(.+)/\*\*/\*(\..+)?$', include): whether it matches
RootedRecursive(pat) ==
    LET n == Len(pat.segs)
    IN /\ n >= 3
       /\ pat.segs[n - 1].k = "rec"
       /\ pat.segs[n].k = "star"

\* m.group(1) of that match
RootGroup(pat) ==
    (IF pat.abs THEN <<"/">> ELSE <<>>)
    \o PathStr([i \in 1..(Len(pat.segs) - 2) |-> SegStr(pat.segs[i])])

-----------------------------------------------------------------------------
(* Builder._packages *)

\* one expanded exclude path: the leading "/" stripped, then the dotted name
ExcludedName(exc) ==
    LET e == IF StartsWithSlash(exc) THEN Tail(exc) ELSE exc
    IN ReplaceSlash(ReplacePy(e))

\* the list excluded: the dotted names of the '.py' paths the exclude and
\* ignore patterns expand to
Excluded(t, excl) ==
    Concat([i \in DOMAIN excl |->
              LET g == Glob(t, excl[i])
                  py == SelectSeq(g, LAMBDA e : EndsWith(e, ".py"))
              IN [j \in DOMAIN py |-> ExcludedName(py[j])]])

\* the children that stay: those not in the list excluded
FilteredChildren(children, excluded) ==
    SelectSeq(children, LAMBDA c : c \notin Range(excluded))

\* the body of "for dir in dirs"
DirStep(t, excluded, st, dir) ==
    IF dir \in Range(st.crawled) THEN st
    ELSE IF PathExists(t, JoinPath(dir, InitPy))
    THEN LET children == GlobPyIn(t, dir)
             filtered == FilteredChildren(children, excluded)
         IN [st EXCEPT
               !.packages = IF children = filtered
                            THEN Append(@, ReplaceSlash(dir)) ELSE @,
               !.modules = IF children = filtered THEN @
                           ELSE @ \o [i \in DOMAIN filtered |->
                                        ReplaceSlash(filtered[i])],
               !.crawled = (@ \o children) \o <<dir>>]
    ELSE [st EXCEPT !.crawled = Append(@, dir)]

\* the body of "for element in others"
OtherStep(t, st, element) ==
    IF element \in Range(st.crawled) THEN st
    ELSE IF EndsWith(element, ".py") /\ Basename(element) # InitPy
    THEN [st EXCEPT !.modules = Append(@, ReplaceSlash(ReplacePy(element))),
                    !.crawled = Append(@, element)]
    ELSE IF Basename(element) # InitPy /\ "__pycache__" \notin Range(element)
    THEN [st EXCEPT !.manifest = Append(@, <<"include ">> \o element),
                    !.crawled = Append(@, element)]
    ELSE IF Basename(element) = InitPy
    THEN LET dir == Dirname(element)
             children == SelectSeq(GlobPyIn(t, dir),
                                   LAMBDA c : Basename(c) # InitPy)
         IN IF children = <<>> /\ dir \notin Range(st.crawled)
            THEN [st EXCEPT !.packages = Append(@, ReplaceSlash(dir)),
                            !.crawled = (@ \o <<dir>>) \o <<element>>]
            ELSE [st EXCEPT !.crawled = Append(@, element)]
    ELSE [st EXCEPT !.crawled = Append(@, element)]

RECURSIVE DirLoop(_, _, _, _)
DirLoop(t, excluded, st, dirs) ==
    IF dirs = <<>> THEN st
    ELSE DirLoop(t, excluded, DirStep(t, excluded, st, Head(dirs)), Tail(dirs))

RECURSIVE OtherLoop(_, _, _)
OtherLoop(t, st, others) ==
    IF others = <<>> THEN st
    ELSE OtherLoop(t, OtherStep(t, st, Head(others)), Tail(others))

\* the directories one include pattern gives: the matched ones, with the root
\* of a '{dir}/**/*' pattern inserted first
DirsOfPattern(t, pat) ==
    LET elements == Glob(t, pat)
        dirs == SelectSeq(elements, LAMBDA d : IsDir(t, d))
    IN IF RootedRecursive(pat) THEN <<RootGroup(pat)>> \o dirs ELSE dirs

OthersOfPattern(t, pat) ==
    SelectSeq(Glob(t, pat), LAMBDA d : ~IsDir(t, d))

\* the body of "for include in includes"
IncludeStep(t, excluded, st, pat) ==
    OtherLoop(t, DirLoop(t, excluded, st, DirsOfPattern(t, pat)),
              OthersOfPattern(t, pat))

RECURSIVE IncludeLoop(_, _, _, _)
IncludeLoop(t, excluded, st, incl) ==
    IF incl = <<>> THEN st
    ELSE IncludeLoop(t, excluded, IncludeStep(t, excluded, st, Head(incl)),
                     Tail(incl))

\* _packages: the returned dict, and self._manifest as the call leaves it
Packages(t, incl, excl, manifest0) ==
    LET excluded == Excluded(t, excl)
        st == IncludeLoop(t, excluded,
                          [packages |-> <<>>, modules |-> <<>>,
                           crawled |-> <<>>, manifest |-> manifest0], incl)
    IN [packages |-> SelectSeq(st.packages, LAMBDA p : p \notin Range(excluded)),
        py_modules |-> SelectSeq(st.modules, LAMBDA m : m \notin Range(excluded)),
        manifest |-> st.manifest]

-----------------------------------------------------------------------------
(* Builder._classifiers_versions *)

\* Builder.PYTHON_VERSIONS, each version string as its tokens
PYTHON_VERSIONS ==
    [major \in {2, 3} |->
       IF major = 2 THEN <<<<"2", ".", "6">>, <<"2", ".", "7">>>>
       ELSE <<<<"3", ".", "0">>, <<"3", ".", "1">>, <<"3", ".", "2">>,
              <<"3", ".", "3">>, <<"3", ".", "4">>, <<"3", ".", "5">>,
              <<"3", ".", "6">>>>]

DigitValue(d) ==
    CASE d = "0" -> 0 [] d = "1" -> 1 [] d = "2" -> 2 [] d = "3" -> 3
      [] d = "4" -> 4 [] d = "5" -> 5 [] d = "6" -> 6 [] d = "7" -> 7

\* Version.coerce('M.m'): the missing patch number becomes 0
Coerce(version) ==
    [major |-> DigitValue(version[1]), minor |-> DigitValue(version[3]),
     patch |-> 0]

\* one clause of a Spec, such as '>=3.5': its version gives major and minor
\* only, and a version is compared with it on those
ClauseMatches(v, clause) ==
    LET less == v.major < clause.major
                \/ (v.major = clause.major /\ v.minor < clause.minor)
        same == v.major = clause.major /\ v.minor = clause.minor
    IN CASE clause.op = ">=" -> ~less
         [] clause.op = ">" -> ~less /\ ~same
         [] clause.op = "<" -> less
         [] clause.op = "<=" -> less \/ same
         [] clause.op = "==" -> same
         [] clause.op = "!=" -> ~same

\* Version.coerce(version) in Spec(python): every clause matches
InConstraint(version, constraint) ==
    \A i \in DOMAIN constraint : ClauseMatches(Coerce(version), constraint[i])

\* compatible_versions[major] after the first loop: one run of matches per
\* constraint, appended in the order of poet.python_versions
CompatibleVersions(pv, major) ==
    Concat([i \in DOMAIN pv |->
              SelectSeq(PYTHON_VERSIONS[major],
                        LAMBDA v : InConstraint(v, pv[i]))])

ClassifierPrefix == "Programming Language :: Python"

\* 'Programming Language :: Python :: {}'.format(x)
ClassifierOf(x) == <<ClassifierPrefix, " :: ">> \o x

MajorStr(major) == IF major = 2 THEN <<"2">> ELSE <<"3">>

\* the classifiers of one major line: none when no version of it matched
MajorClassifiers(pv, major) ==
    LET versions == CompatibleVersions(pv, major)
    IN IF versions = <<>> THEN <<>>
       ELSE <<ClassifierOf(MajorStr(major))>>
            \o [i \in DOMAIN versions |-> ClassifierOf(versions[i])]

ClassifiersVersions(pv) ==
    <<<<ClassifierPrefix>>>> \o MajorClassifiers(pv, 2) \o MajorClassifiers(pv, 3)

-----------------------------------------------------------------------------
(* The inputs the model draws *)

Pattern(abs, segs) == [abs |-> abs, segs |-> segs]

SrcPkg == <<<<"src">>, <<"pkg">>>>

\* the files a project tree is drawn from
FileUniverse ==
    {SrcPkg \o <<InitPy>>,
     SrcPkg \o <<<<"a", ".py">>>>,
     SrcPkg \o <<<<"b", ".py">>>>,
     SrcPkg \o <<<<"d", ".txt">>>>,
     SrcPkg \o <<<<"__pycache__">>, <<"a", ".pyc">>>>,
     <<<<"src">>, <<"pkg", ".py">>>>,
     <<<<"src">>, <<"lone">>, InitPy>>}

Trees == SUBSET FileUniverse

\* 'src/**/*.py', '/src/**/*.py', 'src/**/*', 'src/pkg/*.py', 'src/pkg/**/*.py'
IncludePatterns ==
    {Pattern(FALSE, <<Lit(<<"src">>), Rec, Star(<<".py">>)>>),
     Pattern(TRUE, <<Lit(<<"src">>), Rec, Star(<<".py">>)>>),
     Pattern(FALSE, <<Lit(<<"src">>), Rec, Star(<<>>)>>),
     Pattern(FALSE, <<Lit(<<"src">>), Lit(<<"pkg">>), Star(<<".py">>)>>),
     Pattern(FALSE, <<Lit(<<"src">>), Lit(<<"pkg">>), Rec, Star(<<".py">>)>>)}

\* 'src/pkg/b.py', '/src/pkg/b.py', 'src/*.py'
ExcludePatterns ==
    {Pattern(FALSE, <<Lit(<<"src">>), Lit(<<"pkg">>), Lit(<<"b", ".py">>)>>),
     Pattern(TRUE, <<Lit(<<"src">>), Lit(<<"pkg">>), Lit(<<"b", ".py">>)>>),
     Pattern(FALSE, <<Lit(<<"src">>), Star(<<".py">>)>>)}

SeqsUpTo(S, n) == UNION {[1..k -> S] : k \in 0..n}

Clause(op, major, minor) == [op |-> op, major |-> major, minor |-> minor]

\* '>=3.5,<4.0', '>=3.5', '>3.5', '>=2.7', '>=2.7,<3.0', '<3.0', '==3.6',
\* '<=3.1', '!=3.3,>=3.0', '<2.6'
Constraints ==
    {<<Clause(">=", 3, 5), Clause("<", 4, 0)>>,
     <<Clause(">=", 3, 5)>>,
     <<Clause(">", 3, 5)>>,
     <<Clause(">=", 2, 7)>>,
     <<Clause(">=", 2, 7), Clause("<", 3, 0)>>,
     <<Clause("<", 3, 0)>>,
     <<Clause("==", 3, 6)>>,
     <<Clause("<=", 3, 1)>>,
     <<Clause("!=", 3, 3), Clause(">=", 3, 0)>>,
     <<Clause("<", 2, 6)>>}

-----------------------------------------------------------------------------
(* State machines.  Each specification runs one part of the Builder and   *)
(* leaves the variables of the other parts at rest.                        *)

NoReadme == "None"

NoKwargs == [packages |-> <<>>, py_modules |-> <<>>]

\* what the current build call has done so far
NoHistory ==
    [calls |-> 0, universal |-> FALSE, kwargs |-> NoKwargs, created |-> {},
     preReadme |-> Absent, sdist |-> "not run", cleaned |-> FALSE,
     wheelCalls |-> 0, wheelArgs |-> <<>>, manifestWritten |-> NotCalled]

NoProject ==
    [tree |-> {}, include |-> <<>>, exclude |-> <<>>, markdown |-> FALSE]

PackagesAtRest ==
    tree = {} /\ include = <<>> /\ exclude = <<>> /\ crawl = NotCalled

ClassifiersAtRest == python_versions = <<>> /\ classifiers = NotCalled

BuildAtRest ==
    /\ pc = "off"
    /\ files = [f \in {"setup.py", "MANIFEST.in", "README.rst"} |-> Absent]
    /\ manifest = <<>>
    /\ readme = NoReadme
    /\ pending = "none"
    /\ raised = "none"
    /\ project = NoProject
    /\ hist = NoHistory

packagesVars == <<tree, include, exclude, crawl>>
classifiersVars == <<python_versions, classifiers>>
buildVars == <<pc, files, manifest, readme, pending, raised, project, hist>>

(* ---- Builder._packages on a fresh Builder ---- *)

InitPackages ==
    /\ tree \in Trees
    /\ include \in SeqsUpTo(IncludePatterns, MaxIncludes)
    /\ exclude \in SeqsUpTo(ExcludePatterns, MaxExcludes)
    /\ crawl = NotCalled
    /\ ClassifiersAtRest
    /\ BuildAtRest

CallPackages ==
    /\ crawl = NotCalled
    /\ crawl' = Called(Packages(tree, include, exclude, <<>>))
    /\ UNCHANGED <<tree, include, exclude>>
    /\ UNCHANGED classifiersVars
    /\ UNCHANGED buildVars

NextPackages == CallPackages

SpecPackages == InitPackages /\ [][NextPackages]_vars

(* ---- Builder._classifiers_versions ---- *)

InitClassifiers ==
    /\ python_versions \in SeqsUpTo(Constraints, MaxConstraints)
    /\ classifiers = NotCalled
    /\ PackagesAtRest
    /\ BuildAtRest

CallClassifiersVersions ==
    /\ classifiers = NotCalled
    /\ classifiers' = Called(ClassifiersVersions(python_versions))
    /\ UNCHANGED python_versions
    /\ UNCHANGED packagesVars
    /\ UNCHANGED buildVars

NextClassifiers == CallClassifiersVersions

SpecClassifiers == InitClassifiers /\ [][NextClassifiers]_vars

(* ---- Builder.build, called up to MaxBuilds times on one Builder ---- *)

SetupPy == "setup.py"
ManifestIn == "MANIFEST.in"
ReadmeRst == "README.rst"

\* the projects built: one with a data file and one without
BuildTrees ==
    {{SrcPkg \o <<InitPy>>, SrcPkg \o <<<<"a", ".py">>>>,
      SrcPkg \o <<<<"d", ".txt">>>>, <<<<"src">>, <<"notes", ".txt">>>>},
     {SrcPkg \o <<InitPy>>, SrcPkg \o <<<<"a", ".py">>>>}}

UserReadme == File(<<<<"the project's own README.rst">>>>)

Init ==
    /\ pc = "idle"
    /\ files \in [{SetupPy, ManifestIn, ReadmeRst} -> {Absent, UserReadme}]
    /\ files[SetupPy] = Absent
    /\ files[ManifestIn] = Absent
    /\ manifest = <<>>
    /\ readme = NoReadme
    /\ pending = "none"
    /\ raised = "none"
    /\ project \in [tree : BuildTrees,
                    include : {<<Pattern(FALSE, <<Lit(<<"src">>), Rec, Star(<<>>)>>)>>},
                    exclude : {<<>>},
                    markdown : BOOLEAN]
    /\ hist = NoHistory
    /\ PackagesAtRest
    /\ ClassifiersAtRest

\* the text of setup.py: the lines the claims read
SetupLines(kwargs) ==
    (<<<<"packages=">>>> \o kwargs.packages)
    \o (<<<<"py_modules=">>>> \o kwargs.py_modules)

\* the converted readme: setup_kwargs['long_description']
ReadmeLines == <<<<"long_description">>>>

\* (mutant) the os.path.exists test is left out
WritesReadmeUnconditionally(markdown, exists) == markdown

\* whether build writes README.rst
WritesReadme(markdown, exists) == markdown /\ ~exists

\* os.unlink(name) after the unlinks before it: it raises when the file is
\* missing, and the statements after a raise do not run
Unlink(r, name) ==
    IF r.error # "none" THEN r
    ELSE IF r.files[name].exists THEN [r EXCEPT !.files[name] = Absent]
    ELSE [r EXCEPT !.error = "unlink"]

\* (mutant) the finally block without os.unlink(manifest)
CleanupWithoutManifest(fs, rd) ==
    LET r0 == [files |-> fs, error |-> "none"]
        r1 == Unlink(r0, SetupPy)
    IN IF rd # NoReadme THEN Unlink(r1, rd) ELSE r1

\* the finally block: the files it leaves and the exception it raises
Cleanup(fs, rd) ==
    LET r0 == [files |-> fs, error |-> "none"]
        r2 == Unlink(Unlink(r0, SetupPy), ManifestIn)
    IN IF rd # NoReadme THEN Unlink(r2, rd) ELSE r2

\* (mutant) the except clause swallows the exception instead of re-raising
PropagatedSwallowing(inTry, inFinally) == inFinally

\* the exception that leaves the try statement: one raised in the finally
\* block replaces the one re-raised by the except clause
Propagated(inTry, inFinally) ==
    IF inFinally # "none" THEN inFinally ELSE inTry

\* the arguments of the wheel command
WheelArgs(universal) ==
    <<"--no-index", "--no-deps", "--wheel-dir", "dist", "dist/{archive}">>
    \o (IF universal THEN <<"--build-option=--universal">> ELSE <<>>)

\* a write that raises: open(dest, 'w') raises and the file system is as it
\* was, or open has created or truncated the file and f.write raises
FailedWrite(name) ==
    \/ UNCHANGED <<files, hist>>
    \/ /\ files' = [files EXCEPT ![name] = File(<<>>)]
       /\ hist' = [hist EXCEPT !.created = @ \cup {name}]

\* build is called: _setup runs, _packages appends to self._manifest
Call ==
    /\ pc \in {"idle", "end"}
    /\ hist.calls < MaxBuilds
    /\ \E universal \in BOOLEAN :
         LET r == Packages(project.tree, project.include, project.exclude,
                           manifest)
         IN /\ manifest' = r.manifest
            /\ hist' = [NoHistory EXCEPT
                          !.calls = hist.calls + 1,
                          !.universal = universal,
                          !.kwargs = [packages |-> r.packages,
                                      py_modules |-> r.py_modules],
                          !.preReadme = files[ReadmeRst]]
    /\ pc' = "write_setup"
    /\ readme' = NoReadme
    /\ pending' = "none"
    /\ raised' = "none"
    /\ UNCHANGED <<files, project>>
    /\ UNCHANGED packagesVars
    /\ UNCHANGED classifiersVars

\* self._write_setup(setup_kwargs, setup): it writes the file or raises
WriteSetup ==
    /\ pc = "write_setup"
    /\ \/ /\ files' = [files EXCEPT ![SetupPy] = File(SetupLines(hist.kwargs))]
          /\ hist' = [hist EXCEPT !.created = @ \cup {SetupPy}]
          /\ pc' = "write_manifest"
          /\ UNCHANGED raised
       \/ /\ raised' = "write_setup"
          /\ pc' = "end"
          /\ FailedWrite(SetupPy)
    /\ UNCHANGED <<manifest, readme, pending, project>>
    /\ UNCHANGED packagesVars
    /\ UNCHANGED classifiersVars

\* self._write_manifest(manifest): it writes self._manifest or raises
WriteManifest ==
    /\ pc = "write_manifest"
    /\ \/ /\ files' = [files EXCEPT ![ManifestIn] = File(manifest)]
          /\ hist' = [hist EXCEPT !.created = @ \cup {ManifestIn},
                                  !.manifestWritten = Called(manifest)]
          /\ pc' = "readme"
          /\ UNCHANGED raised
       \/ /\ raised' = "write_manifest"
          /\ pc' = "end"
          /\ FailedWrite(ManifestIn)
    /\ UNCHANGED <<manifest, readme, pending, project>>
    /\ UNCHANGED packagesVars
    /\ UNCHANGED classifiersVars

\* the readme statements: README.rst is written when the project's readme
\* is markdown and no README.rst exists
Readme ==
    /\ pc = "readme"
    /\ IF WritesReadme(project.markdown, files[ReadmeRst].exists)
       THEN \/ /\ files' = [files EXCEPT ![ReadmeRst] = File(ReadmeLines)]
               /\ hist' = [hist EXCEPT !.created = @ \cup {ReadmeRst}]
               /\ readme' = ReadmeRst
               /\ pc' = "try"
               /\ UNCHANGED raised
            \/ /\ raised' = "write_readme"
               /\ pc' = "end"
               /\ readme' = ReadmeRst
               /\ FailedWrite(ReadmeRst)
       ELSE /\ readme' = NoReadme
            /\ pc' = "try"
            /\ UNCHANGED <<files, hist, raised>>
    /\ UNCHANGED <<manifest, pending, project>>
    /\ UNCHANGED packagesVars
    /\ UNCHANGED classifiersVars

\* the try block: Distribution(setup_kwargs) or run_command('sdist') raises,
\* or the source archive is built.  The two are external: they read the
\* transient files and leave them in place.
Try ==
    /\ pc = "try"
    /\ \E outcome \in {"none", "dist", "sdist"} :
         /\ pending' = outcome
         /\ hist' = [hist EXCEPT
                       !.sdist = IF outcome = "none" THEN "ok"
                                 ELSE IF outcome = "sdist" THEN "raised"
                                 ELSE "not run"]
    /\ pc' = "finally"
    /\ UNCHANGED <<files, manifest, readme, raised, project>>
    /\ UNCHANGED packagesVars
    /\ UNCHANGED classifiersVars

\* the finally block, then the exception leaves build or the wheel follows
Finally ==
    /\ pc = "finally"
    /\ LET r == Cleanup(files, readme)
           e == Propagated(pending, r.error)
       IN /\ files' = r.files
          /\ hist' = [hist EXCEPT !.cleaned = (r.error = "none")]
          /\ raised' = e
          /\ pc' = IF e = "none" THEN "wheel" ELSE "end"
    /\ pending' = "none"
    /\ UNCHANGED <<manifest, readme, project>>
    /\ UNCHANGED packagesVars
    /\ UNCHANGED classifiersVars

\* command.main(command_args): the wheel is built or the command raises
Wheel ==
    /\ pc = "wheel"
    /\ hist' = [hist EXCEPT !.wheelCalls = @ + 1,
                            !.wheelArgs = WheelArgs(hist.universal)]
    /\ \E ok \in BOOLEAN : raised' = IF ok THEN "none" ELSE "wheel"
    /\ pc' = "end"
    /\ UNCHANGED <<files, manifest, readme, pending, project>>
    /\ UNCHANGED packagesVars
    /\ UNCHANGED classifiersVars

Next ==
    \/ Call
    \/ WriteSetup
    \/ WriteManifest
    \/ Readme
    \/ Try
    \/ Finally
    \/ Wheel

Spec == Init /\ [][Next]_vars

-----------------------------------------------------------------------------
(* Vocabulary of the claims *)

\* the dotted name of a directory of the tree
DottedName(p) == ReplaceSlash(PathStr(p))

\* the dotted name of a source file of the tree: the '.py' suffix stripped
ModuleName(p) == ReplaceSlash(ReplacePy(PathStr(p)))

\* the directories that hold __init__.py
PackageDirs(t) == {d \in DirsOf(t) : Append(d, InitPy) \in t}

\* the immediate child source files of a directory
ChildSources(t, d) ==
    {f \in t : Len(f) = Len(d) + 1 /\ IsPrefix(d, f) /\ EndsWith(Last(f), ".py")}

\* the paths a list of patterns matches
MatchedPaths(t, pats) ==
    UNION {Expand(t, <<>>, pats[i].segs) : i \in DOMAIN pats}

\* the directories the include patterns give as directories
ReachedDirs(t, pats) ==
    UNION {{Components(x) : x \in Range(DirsOfPattern(t, pats[i]))} :
             i \in DOMAIN pats}

\* a dotted name as recorded from a relative path or, with the leading "/"
\* turned into a dot, from an absolute one
Recorded(name) == {name, <<".">> \o name}

\* how often a list records a dotted name, in either form
TimesRecorded(list, name) ==
    Cardinality({i \in DOMAIN list : list[i] \in Recorded(name)})

\* the case of C2: d holds __init__.py, the include patterns match all of its
\* child source files and the exclude patterns none
WholePackageCase(d) ==
    /\ d \in PackageDirs(tree)
    /\ ChildSources(tree, d) \subseteq MatchedPaths(tree, include)
    /\ ChildSources(tree, d) \cap MatchedPaths(tree, exclude) = {}

\* C2: a directory with __init__.py, all of whose child source files are
\* matched by the include patterns and none excluded, is recorded exactly once
\* in packages and none of its children is recorded in py_modules.
C2_WholePackageRecordedOnce ==
    crawl.called =>
      \A d \in DirsOf(tree) :
        WholePackageCase(d) =>
          /\ TimesRecorded(crawl.value.packages, DottedName(d)) = 1
          /\ \A c \in ChildSources(tree, d) :
               TimesRecorded(crawl.value.py_modules, ModuleName(c)) = 0

\* C3: a directory with __init__.py that an include pattern reaches and that
\* has an excluded child is not recorded in packages; every child that is
\* neither excluded nor __init__.py is recorded in py_modules under its dotted
\* name, and __init__.py is not.
C3_PartlyExcludedPackageSplit ==
    crawl.called =>
      \A d \in PackageDirs(tree) \cap ReachedDirs(tree, include) :
        LET gone == ChildSources(tree, d) \cap MatchedPaths(tree, exclude)
        IN gone # {} =>
             /\ TimesRecorded(crawl.value.packages, DottedName(d)) = 0
             /\ \A c \in ChildSources(tree, d) \ gone :
                  IF Last(c) = InitPy
                  THEN TimesRecorded(crawl.value.py_modules, ModuleName(c)) = 0
                  ELSE TimesRecorded(crawl.value.py_modules, ModuleName(c)) > 0

\* C4: no dotted name is returned both in packages and in py_modules.
C4_PackagesModulesDisjoint ==
    crawl.called =>
      Range(crawl.value.packages) \cap Range(crawl.value.py_modules) = {}

\* C10: no source file recorded as a module is an immediate child of a
\* directory the same crawl records as a package.
C10_NoPathClassifiedTwice ==
    crawl.called =>
      \A d \in DirsOf(tree) : \A c \in ChildSources(tree, d) :
        ~ /\ TimesRecorded(crawl.value.packages, DottedName(d)) > 0
          /\ TimesRecorded(crawl.value.py_modules, ModuleName(c)) > 0

\* no element of a list occurs twice
NoDuplicates(s) == \A i, j \in DOMAIN s : s[i] = s[j] => i = j

\* the minor releases of a major line that satisfy at least one constraint,
\* in catalog order
MatchingReleases(pv, major) ==
    SelectSeq(PYTHON_VERSIONS[major],
              LAMBDA v : \E i \in DOMAIN pv : InConstraint(v, pv[i]))

ExpectedMajor(pv, major) ==
    LET versions == MatchingReleases(pv, major)
    IN IF versions = <<>> THEN <<>>
       ELSE <<ClassifierOf(MajorStr(major))>>
            \o [i \in DOMAIN versions |-> ClassifierOf(versions[i])]

\* C5: the result is the generic tag, then for each major line with a matching
\* minor release, in ascending order, the major tag followed by the tag of
\* each matching minor release once, in catalog order; no tag appears twice.
C5_ClassifiersOncePerRelease ==
    classifiers.called =>
      /\ classifiers.value =
           <<<<ClassifierPrefix>>>> \o ExpectedMajor(python_versions, 2)
           \o ExpectedMajor(python_versions, 3)
      /\ NoDuplicates(classifiers.value)

\* the files the current call created are gone
CreatedFilesGone == \A f \in hist.created : ~files[f].exists

\* C1: when a build call whose source-archive step raised ends, the transient
\* files it wrote are gone and the caller observes the exception of the
\* source-archive step.
C1_SdistFailureCleanedAndPropagated ==
    (pc = "end" /\ hist.sdist = "raised") =>
      /\ {SetupPy, ManifestIn} \subseteq hist.created
      /\ CreatedFilesGone
      /\ raised = "sdist"

C1_Witness ==
    /\ pc = "end"
    /\ hist.sdist = "raised"
    /\ hist.created = {SetupPy, ManifestIn, ReadmeRst}
    /\ hist.calls = 2

\* C6: the data-file manifest a call writes holds exactly the directives of
\* the data files classified during that call.
C6_ManifestOfThisCallOnly ==
    hist.manifestWritten.called =>
      hist.manifestWritten.value =
        Packages(project.tree, project.include, project.exclude, <<>>).manifest

\* C7: when a build call ends because a step after the first write failed,
\* every transient file it had created is deleted.
C7_CleanupWhateverStepFailed ==
    (pc = "end"
     /\ raised \in {"write_manifest", "write_readme", "dist", "sdist"}) =>
      CreatedFilesGone

\* C8: the wheel command is invoked at most once in a build call, only after
\* the source-archive step succeeded and the cleanup completed; it is never
\* invoked when the source-archive step or the cleanup raised, and a failing
\* wheel command ends the call.
C8_WheelOnceAfterSdistAndCleanup ==
    /\ hist.wheelCalls <= 1
    /\ (pc = "wheel" \/ hist.wheelCalls = 1) =>
         /\ hist.sdist = "ok"
         /\ hist.cleaned
         /\ CreatedFilesGone
    /\ (hist.sdist = "raised" \/ raised = "unlink" \/ pending # "none") =>
         (hist.wheelCalls = 0 /\ pc # "wheel")
    /\ raised = "wheel" => (pc = "end" /\ hist.wheelCalls = 1)

C8_Witness ==
    /\ pc = "end"
    /\ raised = "wheel"
    /\ hist.wheelCalls = 1
    /\ hist.calls = 2

\* C9: README.rst is written only when the readme is markdown and no
\* README.rst existed when build was called; a README.rst that existed then
\* exists with the same content throughout the call and after it.
C9_ExistingReadmeUntouched ==
    /\ ReadmeRst \in hist.created =>
         (project.markdown /\ ~hist.preReadme.exists)
    /\ hist.preReadme.exists => files[ReadmeRst] = hist.preReadme

C9_Witness ==
    /\ pc = "end"
    /\ project.markdown
    /\ hist.preReadme.exists
    /\ raised = "sdist"

====
